---- MODULE Spec2Model ----
(***************************************************************************)
(* A model of ezyrb/parallel/ae_eddl.py (class AE_EDDL) and of the         *)
(* constructor of ezyrb.Database as exercised by tests/test_database.py.   *)
(*                                                                         *)
(* Tensors and matrices are modelled by their shapes and by the identity   *)
(* of the parameters that produced them; the external library (pyeddl) is  *)
(* modelled by what the calls used here do to layer lists, parameter       *)
(* groups and shapes.  Floating-point losses and tolerances are scaled     *)
(* integers: only their order is used by the code.                         *)
(***************************************************************************)
EXTENDS Integers, Sequences, FiniteSets, TLC

VARIABLES
    \* configuration (AE_EDDL.__init__)
    args,               \* the constructor's arguments, as passed
    layers_encoder, layers_decoder,
    function_encoder, function_decoder,
    stop_training, batch_size, training_type,
    \* trained state
    loss_trend, metric_trend,
    encoder, decoder, decoder2,
    model_Autoencoder, model_Decoder,
    \* the call in progress (fit) and its locals
    pc, values, n_epoch, flag, decoder_parameters,
    \* the last call made on the object and what it returned
    ret,
    \* the fit calls made so far, and whether one has returned normally
    n_fit, fit_completed,
    \* ezyrb.Database: the constructor's arguments and its outcome
    db_args, database

vars == <<args, layers_encoder, layers_decoder, function_encoder,
          function_decoder, stop_training, batch_size, training_type,
          loss_trend, metric_trend, encoder, decoder, decoder2,
          model_Autoencoder, model_Decoder, pc, values, n_epoch, flag,
          decoder_parameters, ret, n_fit, fit_completed, db_args, database>>

config == <<layers_encoder, layers_decoder, function_encoder,
            function_decoder, stop_training, batch_size, training_type>>

ae_vars == <<args, layers_encoder, layers_decoder, function_encoder,
             function_decoder, stop_training, batch_size, training_type,
             loss_trend, metric_trend, encoder, decoder, decoder2,
             model_Autoencoder, model_Decoder, pc, values, n_epoch, flag,
             decoder_parameters, ret, n_fit, fit_completed>>

----------------------------------------------------------------------------
(* Bounds of the model. *)

\* longest list of layer widths
MaxLayers == 2
\* largest number of samples (columns) of a matrix handed to a call
MaxSamples == 2
\* epochs trained over the object's lifetime (loss_trend is never reset)
MaxEpoch == 3
\* fit calls made on one object
MaxFits == 2
\* largest number of rows of a matrix handed to Database
MaxRows == 3

\* the feature count hard-coded for the batch tensor of training mode 2
XBatchWidth == 3067

\* widths of the latent layer and of the decoder's first entry
Widths == {1, 2}
\* feature counts (rows) of the snapshot matrices handed to fit/transform
FeatureDims == {2, XBatchWidth}
\* first loss / metric values an epoch can report, and the tolerances
LossValues == {1, 2}
MetricValues == {1}
Tolerances == {1, 2}
TrainingTypes == {1, 2, 3}
\* sample counts (columns) of the matrices handed to a call
SampleCounts == {1, MaxSamples}

----------------------------------------------------------------------------
(* Values. *)

\* an activation callable; pos = 0 for one passed alone, else its position
\* in the list it was passed in
Activation(fam, pos) == [fam |-> fam, pos |-> pos]

NoActivation == Activation("none", 0)

\* a stopping criterion: isinstance(c, int) or isinstance(c, float)
IntCriterion(n) == [ty |-> "int", val |-> n]

FloatCriterion(x) == [ty |-> "float", val |-> x]

Layer(kind, in, units, fn) == [kind |-> kind, in |-> in, units |-> units, fn |-> fn]

\* None, for a layer handle and for a model
NoLayer == [net |-> "none", idx |-> 0]

NoModel == [built |-> FALSE, layers |-> <<>>, params |-> <<>>]

\* one trainable tensor: the layer of the net that owns it, the epoch that
\* last updated it, and its shape
Tensor(net, idx, ver, shape) == [net |-> net, layer |-> idx, ver |-> ver, shape |-> shape]

Last(s) == s[Len(s)]

Transpose(shape) == IF Len(shape) = 2 THEN <<shape[2], shape[1]>> ELSE shape

Ravel(shape) == IF Len(shape) = 2 THEN <<shape[1] * shape[2]>> ELSE shape

----------------------------------------------------------------------------
(* AE_EDDL.__init__ *)

\* faulty variant: a single activation repeated once per hidden layer, the output
\* layer left out
NormalizeFunctionHidden(f, layers) ==
    IF f.list THEN f.items ELSE [i \in 1..(Len(layers) - 1) |-> f.items[1]]

\* lines 83-88: a single activation is repeated once per layer width, a list
\* is stored as passed
NormalizeFunction(f, layers) ==
    IF f.list THEN f.items ELSE [i \in 1..Len(layers) |-> f.items[1]]

\* lines 90-91
NormalizeStop(s) == IF s.list THEN s.items ELSE <<s.items[1]>>

\* width lists: n entries, the latent width last (encoder) or first (decoder)
Hidden(i) == i + 2

EncoderLists ==
    { [i \in 1..n |-> IF i = n THEN w ELSE Hidden(i)] : n \in 1..MaxLayers, w \in Widths }

DecoderLists ==
    { [i \in 1..n |-> IF i = 1 THEN w ELSE Hidden(i)] : n \in 1..MaxLayers, w \in Widths }

\* a list of n pairwise distinct activations
FunctionList(fam, n) == [list |-> TRUE, items |-> [i \in 1..n |-> Activation(fam, i)]]

FunctionSingle(fam) == [list |-> FALSE, items |-> <<Activation(fam, 0)>>]

\* a single activation, or a list with one activation per width, one fewer
\* or one more
FunctionArgs(fam, layers) ==
    { FunctionSingle(fam) }
    \cup { FunctionList(fam, n) : n \in (Len(layers) - 1)..(Len(layers) + 1) }

Criteria ==
    { IntCriterion(n) : n \in 0..(MaxEpoch - 1) } \cup { FloatCriterion(x) : x \in Tolerances }

StopArgs ==
    { [list |-> FALSE, items |-> <<c>>] : c \in Criteria }
    \cup { [list |-> TRUE, items |-> <<c, d>>] : c \in Criteria, d \in Criteria }

\* the configurations explored: every stopping list and training mode on one
\* network, and every network (the decoder's first width being the latent
\* width) and activation argument under one stopping list
TrainingArgs ==
    { [layers_encoder |-> <<Hidden(1), 1>>, layers_decoder |-> <<1, Hidden(2)>>,
       function_encoder |-> FunctionSingle("enc"),
       function_decoder |-> FunctionSingle("dec"),
       stop_training |-> s, batch_size |-> MaxSamples, training_type |-> t]
      : s \in StopArgs, t \in TrainingTypes }

\* a width list with an activation argument for it: for the encoder a single
\* activation or a list with one per width, one fewer or one more; for the
\* decoder a single activation or a list with one per width
EncoderChoices ==
    UNION { { <<l, f>> : f \in FunctionArgs("enc", l) } : l \in EncoderLists }

DecoderChoices ==
    UNION { { <<l, f>> : f \in { FunctionSingle("dec"), FunctionList("dec", Len(l)) } }
            : l \in DecoderLists }

NetworkArgs ==
    { [layers_encoder |-> p[1][1], layers_decoder |-> p[2][1],
       function_encoder |-> p[1][2], function_decoder |-> p[2][2],
       stop_training |-> [list |-> FALSE, items |-> <<IntCriterion(1)>>],
       batch_size |-> MaxSamples, training_type |-> 1]
      : p \in { q \in EncoderChoices \X DecoderChoices : q[2][1][1] = Last(q[1][1]) } }

\* a call record: the operation, its matrix argument's shape, its optional
\* argument ("none" for None), whether it raised, and the returned matrix
\* (its shape and the parameters that computed it)
Call(op, arg, opt, raised, out, data) ==
    [op |-> op, arg |-> arg, opt |-> opt, raised |-> raised, out |-> out, data |-> data]

NoCall == Call("none", <<>>, "none", FALSE, <<>>, <<>>)

\* a matrix argument of Database: None, or a matrix of some shape
NoMatrix == [given |-> FALSE, shape |-> <<0, 0>>]

Matrix(r, c) == [given |-> TRUE, shape |-> <<r, c>>]

\* no Database constructed yet
NoDatabase == [made |-> FALSE, raised |-> FALSE, n |-> 0]

NoDbArgs == [parameters |-> NoMatrix, snapshots |-> NoMatrix]

\* lines 64-112
InitObject(a) ==
    /\ args = a
    /\ layers_encoder = args.layers_encoder
    /\ layers_decoder = args.layers_decoder
    /\ function_encoder = NormalizeFunction(args.function_encoder, args.layers_encoder)
    /\ function_decoder = NormalizeFunction(args.function_decoder, args.layers_decoder)
    /\ stop_training = NormalizeStop(args.stop_training)
    /\ batch_size = args.batch_size
    /\ training_type = args.training_type
    /\ loss_trend = <<>>
    /\ metric_trend = <<>>
    /\ encoder = NoLayer
    /\ decoder = NoLayer
    /\ decoder2 = NoLayer
    /\ model_Autoencoder = NoModel
    /\ model_Decoder = NoModel
    /\ pc = "idle"
    /\ values = <<>>
    /\ n_epoch = 0
    /\ flag = FALSE
    /\ decoder_parameters = <<>>
    /\ ret = NoCall
    /\ n_fit = 0
    /\ fit_completed = FALSE

Init ==
    /\ \E a \in TrainingArgs \cup NetworkArgs : InitObject(a)
    /\ db_args = NoDbArgs
    /\ database = NoDatabase

----------------------------------------------------------------------------
(* AE_EDDL._build_model *)

\* lines 126-127: the input width is put in front of a copy of the list
ExtEncoder(F) == <<F>> \o layers_encoder

\* lines 129-130: the input width is appended to a copy of the list
ExtDecoder(F) == Append(layers_decoder, F)

\* the for loop of EncoderBlock / DecoderBlock from Python's index i on:
\* a Dense layer of widths[i] wrapped in the activation fns[i] (0-based)
RECURSIVE BlockLoop(_, _, _, _)
BlockLoop(net, widths, fns, i) ==
    IF i > Len(widths) - 2 THEN net
    ELSE BlockLoop(net \o << Layer("Dense", Last(net).units, widths[i + 1], NoActivation),
                             Layer("Act", widths[i + 1], widths[i + 1], fns[i + 1]) >>,
                   widths, fns, i + 1)

\* fns[i] raises IndexError for an i the loop reaches
BlockRaises(widths, fns) == \E i \in 1..(Len(widths) - 2) : i + 1 > Len(fns)

\* lines 132-137
EncoderBlock(net, F) ==
    LET loop == BlockLoop(net, ExtEncoder(F), function_encoder, 1)
    IN  Append(loop, Layer("Dense", Last(loop).units, Last(ExtEncoder(F)), NoActivation))

\* lines 139-144: the activations are read from function_encoder
DecoderBlock(net, F) ==
    LET loop == BlockLoop(net, ExtDecoder(F), function_encoder, 1)
    IN  Append(loop, Layer("Dense", Last(loop).units, Last(ExtDecoder(F)), NoActivation))

\* eddl.Input
InputLayer(w) == <<Layer("Input", 0, w, NoActivation)>>

\* eddl.Model + eddl.build: one parameter group per layer, a fresh tensor for
\* a Dense layer and none for an Input or activation layer
FreshParams(net, layers) ==
    [i \in 1..Len(layers) |->
        IF layers[i].kind = "Dense"
        THEN << Tensor(net, i, 0, <<layers[i].in, layers[i].units>>) >>
        ELSE <<>>]

BuildNet(net, layers) ==
    [built |-> TRUE, layers |-> layers, params |-> FreshParams(net, layers)]

----------------------------------------------------------------------------
(* AE_EDDL.fit *)

\* the fit call in progress, and the fit call that raised
FitCall(raised) == Call("fit", <<>>, "none", raised, <<>>, <<>>)

\* lines 198-200 and the mode's loop header: values.T, _build_model(values),
\* n_epoch = 1, flag = True.  An IndexError of EncoderBlock leaves the object
\* as it was; one of DecoderBlock leaves self.encoder assigned (line 148).
FitBuild ==
    /\ pc = "idle"
    /\ n_fit < MaxFits
    /\ Len(loss_trend) < MaxEpoch
    /\ n_fit' = n_fit + 1
    /\ \E F \in FeatureDims, N \in SampleCounts :
        LET v   == Transpose(<<F, N>>)
            enc == EncoderBlock(InputLayer(v[2]), v[2])
            ae  == DecoderBlock(enc, v[2])
            dec == DecoderBlock(InputLayer(layers_decoder[1]), v[2])
        IN
        IF BlockRaises(ExtEncoder(v[2]), function_encoder) THEN
            /\ ret' = FitCall(TRUE)
            /\ decoder_parameters' = <<>>
            /\ UNCHANGED <<encoder, decoder, decoder2, model_Autoencoder,
                           model_Decoder, pc, values, n_epoch, flag>>
        ELSE IF BlockRaises(ExtDecoder(v[2]), function_encoder) THEN
            /\ encoder' = [net |-> "ae", idx |-> Len(enc)]
            /\ ret' = FitCall(TRUE)
            /\ decoder_parameters' = <<>>
            /\ UNCHANGED <<decoder, decoder2, model_Autoencoder,
                           model_Decoder, pc, values, n_epoch, flag>>
        ELSE
            /\ encoder' = [net |-> "ae", idx |-> Len(enc)]
            /\ decoder' = [net |-> "ae", idx |-> Len(ae)]
            /\ model_Autoencoder' = BuildNet("ae", ae)
            /\ decoder2' = [net |-> "dec", idx |-> Len(dec)]
            /\ model_Decoder' = BuildNet("dec", dec)
            /\ values' = v
            /\ n_epoch' = 1
            /\ flag' = TRUE
            /\ pc' = "train"
            /\ decoder_parameters' = <<>>
            /\ ret' = FitCall(FALSE)
    /\ UNCHANGED <<args, config, loss_trend, metric_trend, fit_completed,
                   db_args, database>>

\* faulty variant: a loss equal to the tolerance stops the training
CriterionMetInclusive(criteria, n, losses) ==
    IF criteria.ty = "int" THEN n = criteria.val
    ELSE IF criteria.ty = "float" THEN losses[1] <= criteria.val
    ELSE FALSE

\* lines 216-223: one stopping criterion against the epoch just trained
CriterionMet(criteria, n, losses) ==
    IF criteria.ty = "int" THEN n = criteria.val
    ELSE IF criteria.ty = "float" THEN losses[1] < criteria.val
    ELSE FALSE

\* lines 215-223 (248-256, 281-289): the scan of stop_training from entry i on
RECURSIVE ScanCriteria(_, _, _, _)
ScanCriteria(i, fl, n, losses) ==
    IF i > Len(stop_training) THEN fl
    ELSE ScanCriteria(i + 1, IF CriterionMet(stop_training[i], n, losses) THEN FALSE ELSE fl,
                      n, losses)

\* eddl.fit / eddl.train_batch: every trainable tensor is updated
Trained(model, n) ==
    [model EXCEPT !.params =
        [i \in 1..Len(model.params) |->
            [j \in 1..Len(model.params[i]) |-> [model.params[i][j] EXCEPT !.ver = n]]]]

\* faulty variant: the metrics of the epoch are not recorded
EndOfEpochWithoutMetrics(l, m) ==
    /\ loss_trend' = Append(loss_trend, <<l>>)
    /\ metric_trend' = metric_trend
    /\ flag' = ScanCriteria(1, flag, n_epoch, <<l>>)
    /\ n_epoch' = n_epoch + 1
    /\ UNCHANGED <<pc, values, ret>>

\* lines 210-224 (240-257, 273-290): the losses are recorded, the criteria
\* scanned and the epoch counter advanced
EndOfEpoch(l, m) ==
    /\ loss_trend' = Append(loss_trend, <<l>>)
    /\ metric_trend' = Append(metric_trend, <<m>>)
    /\ flag' = ScanCriteria(1, flag, n_epoch, <<l>>)
    /\ n_epoch' = n_epoch + 1
    /\ UNCHANGED <<pc, values, ret>>

\* the call raises out of the training loop: its locals are gone
RaiseInLoop ==
    /\ pc' = "idle"
    /\ ret' = [ret EXCEPT !.raised = TRUE]
    /\ values' = <<>>
    /\ n_epoch' = 0
    /\ flag' = FALSE
    /\ UNCHANGED <<loss_trend, metric_trend, model_Autoencoder>>

\* lines 206-224: one iteration of the loop of the coarse mode
Epoch1 ==
    /\ pc = "train" /\ training_type = 1 /\ flag
    /\ Len(loss_trend) < MaxEpoch
    /\ \E l \in LossValues, m \in MetricValues :
        /\ model_Autoencoder' = Trained(model_Autoencoder, n_epoch)
        /\ EndOfEpoch(l, m)
    /\ UNCHANGED <<args, config, encoder, decoder, decoder2, model_Decoder,
                   decoder_parameters, n_fit, fit_completed, db_args, database>>

\* lines 228-230
NumBatches == values[1] \div batch_size

\* lines 233-257: one iteration of the loop of the first fine mode.  The
\* batch tensor has XBatchWidth columns whatever the data: filling it from
\* data of another width is a shape mismatch the library raises on.
Epoch2 ==
    /\ pc = "train" /\ training_type = 2 /\ flag
    /\ Len(loss_trend) < MaxEpoch
    /\ IF NumBatches > 0 /\ values[2] # XBatchWidth THEN RaiseInLoop
       ELSE \E l \in LossValues, m \in MetricValues :
            /\ model_Autoencoder' =
                 IF NumBatches > 0 THEN Trained(model_Autoencoder, n_epoch)
                 ELSE model_Autoencoder
            /\ EndOfEpoch(l, m)
    /\ UNCHANGED <<args, config, encoder, decoder, decoder2, model_Decoder,
                   decoder_parameters, n_fit, fit_completed, db_args, database>>

\* lines 265-290: one iteration of the loop of the second fine mode
Epoch3 ==
    /\ pc = "train" /\ training_type = 3 /\ flag
    /\ Len(loss_trend) < MaxEpoch
    /\ \E l \in LossValues, m \in MetricValues :
        /\ model_Autoencoder' =
             IF NumBatches > 0 THEN Trained(model_Autoencoder, n_epoch)
             ELSE model_Autoencoder
        /\ EndOfEpoch(l, m)
    /\ UNCHANGED <<args, config, encoder, decoder, decoder2, model_Decoder,
                   decoder_parameters, n_fit, fit_completed, db_args, database>>

\* Python's seq[-k:]
TailSlice(seq, k) ==
    IF k > 0 THEN SubSeq(seq, IF Len(seq) > k THEN Len(seq) - k + 1 ELSE 1, Len(seq))
    ELSE SubSeq(seq, 1 - k, Len(seq))

\* faulty variant: the count taken from the decoder's width list
NumLayDecoderOfDecoder == 2 * Len(layers_decoder) - 1

\* lines 294-295
NumLayDecoder == 2 * Len(layers_encoder) - 1

\* lines 296-299: the tail of the autoencoder's parameter groups behind one
\* empty group for the decoder's input layer
DecoderParameters == << <<>> >> \o TailSlice(model_Autoencoder.params, NumLayDecoder)

\* whether a parameter list fits a model: one group per layer, each of the
\* layer's own tensor count and shapes
Fits(params, model) ==
    /\ Len(params) = Len(model.layers)
    /\ \A i \in 1..Len(params) :
        /\ Len(params[i]) = Len(model.params[i])
        /\ \A j \in 1..Len(params[i]) : params[i][j].shape = model.params[i][j].shape

\* eddl.set_parameters, group by group in order of the layers
SetParameters(model, params) ==
    [model EXCEPT !.params =
        [i \in 1..Len(model.layers) |->
            IF i <= Len(params) THEN params[i] ELSE model.params[i]]]

\* lines 294-300, then the call returns.  A list that does not fit the
\* decoder is not checked here: the library either raises or copies the
\* groups onto the layers in order.
FitCopy ==
    /\ pc = "train" /\ ~flag
    /\ decoder_parameters' = DecoderParameters
    /\ \/ /\ model_Decoder' = SetParameters(model_Decoder, DecoderParameters)
          /\ fit_completed' = TRUE
          /\ UNCHANGED ret
       \/ /\ ~Fits(DecoderParameters, model_Decoder)
          /\ ret' = [ret EXCEPT !.raised = TRUE]
          /\ UNCHANGED <<model_Decoder, fit_completed>>
    /\ pc' = "idle"
    /\ values' = <<>>
    /\ n_epoch' = 0
    /\ flag' = FALSE
    /\ UNCHANGED <<args, config, loss_trend, metric_trend, encoder, decoder,
                   decoder2, model_Autoencoder, n_fit, db_args, database>>

----------------------------------------------------------------------------
(* AE_EDDL.transform / inverse_transform / reduce / expand *)

\* faulty variant: a training pass in place of the forward pass
ForwardTraining(model, batch) == [net |-> Trained(model, MaxEpoch + 1), rows |-> batch[1]]

\* eddl.predict / eddl.forward: one forward pass over a batch of batch[1]
\* rows: the net as the pass leaves it, every layer holding an output of
\* that many rows
Forward(model, batch) == [net |-> model, rows |-> batch[1]]

\* eddl.getOutput: the output a layer holds after the forward pass
GetOutput(pass, layer) == <<pass.rows, pass.net.layers[layer.idx].units>>

\* a forward pass works on a built model whose input layer is as wide as the
\* batch and whose tensors have the shapes of their layers
Runs(model, batch) ==
    /\ model.built
    /\ batch[2] = model.layers[1].units
    /\ \A i \in 1..Len(model.layers) :
        IF model.layers[i].kind = "Dense"
        THEN /\ Len(model.params[i]) = 1
             /\ model.params[i][1].shape = <<model.layers[i].in, model.layers[i].units>>
        ELSE model.params[i] = <<>>

\* lines 313-328: the matrix transform returns for a snapshot matrix of
\* shape X after the forward pass m
ReducedOutput(m) == Transpose(Transpose(GetOutput(m, encoder)))

\* lines 307-328.  scaler_red.fit_transform keeps the shape of its argument.
Transform ==
    /\ pc = "idle"
    /\ \E F \in FeatureDims, N \in SampleCounts, scaler_red \in {"none", "scaler"} :
        LET X == Transpose(<<F, N>>)
            m == Forward(model_Autoencoder, X)
        IN
        IF ~Runs(model_Autoencoder, X) THEN
            /\ ret' = Call("transform", <<F, N>>, scaler_red, TRUE, <<>>, <<>>)
            /\ UNCHANGED model_Autoencoder
        ELSE
            /\ model_Autoencoder' = m.net
            /\ ret' = Call("transform", <<F, N>>, scaler_red, FALSE, ReducedOutput(m),
                           SubSeq(m.net.params, 1, encoder.idx))
    /\ UNCHANGED <<args, config, loss_trend, metric_trend, encoder, decoder,
                   decoder2, model_Decoder, pc, values, n_epoch, flag,
                   decoder_parameters, n_fit, fit_completed, db_args, database>>

\* lines 347-358: the matrix inverse_transform returns after the forward
\* pass m.  The snapshot scaler keeps the shape.
PredictedSol(m, database_arg) ==
    LET u      == GetOutput(m, decoder2)
        sol    == Transpose(u)
        scaled == IF database_arg = "scaler" THEN Transpose(Transpose(sol)) ELSE sol
    IN  IF 1 \in {scaled[1], scaled[2]} THEN Ravel(scaled) ELSE Transpose(scaled)

\* lines 331-358.  database_arg: None (or a Database without a snapshot
\* scaler, which takes the same path), or a Database with one.
InverseTransform ==
    /\ pc = "idle"
    /\ \E L \in Widths, N \in SampleCounts, database_arg \in {"none", "scaler"} :
        LET g == Transpose(<<L, N>>)
            m == Forward(model_Decoder, g)
        IN
        IF ~Runs(model_Decoder, g) THEN
            /\ ret' = Call("inverse_transform", <<L, N>>, database_arg, TRUE, <<>>, <<>>)
            /\ UNCHANGED model_Decoder
        ELSE
            /\ model_Decoder' = m.net
            /\ ret' = Call("inverse_transform", <<L, N>>, database_arg, FALSE,
                           PredictedSol(m, database_arg), m.net.params)
    /\ UNCHANGED <<args, config, loss_trend, metric_trend, encoder, decoder,
                   decoder2, model_Autoencoder, pc, values, n_epoch, flag,
                   decoder_parameters, n_fit, fit_completed, db_args, database>>

\* lines 360-370
Reduce == Transform

\* lines 372-382
Expand == InverseTransform

\* reduce and expand are transform and inverse_transform under their older
\* names: a step of either is a step of the method it calls
Next ==
    \/ FitBuild \/ Epoch1 \/ Epoch2 \/ Epoch3 \/ FitCopy
    \/ Transform \/ InverseTransform

Spec == Init /\ [][Next]_vars

----------------------------------------------------------------------------
(* ezyrb.Database.__init__, as the tests and the specification describe it *)

DbMatrices == { NoMatrix } \cup { Matrix(r, c) : r \in 1..MaxRows, c \in 1..MaxRows }

\* faulty variant: one matrix alone is taken for an empty container
DatabaseInitLenient(parameters, snapshots) ==
    IF ~parameters.given \/ ~snapshots.given
    THEN [made |-> TRUE, raised |-> FALSE, n |-> 0]
    ELSE IF parameters.shape[1] # snapshots.shape[1]
    THEN [made |-> TRUE, raised |-> TRUE, n |-> 0]
    ELSE [made |-> TRUE, raised |-> FALSE, n |-> parameters.shape[1]]

\* the container holds one parameter row per snapshot row: one matrix alone
\* is refused, two matrices must have as many rows as each other
DatabaseInit(parameters, snapshots) ==
    IF parameters.given # snapshots.given
    THEN [made |-> TRUE, raised |-> TRUE, n |-> 0]
    ELSE IF ~parameters.given
    THEN [made |-> TRUE, raised |-> FALSE, n |-> 0]
    ELSE IF parameters.shape[1] # snapshots.shape[1]
    THEN [made |-> TRUE, raised |-> TRUE, n |-> 0]
    ELSE [made |-> TRUE, raised |-> FALSE, n |-> parameters.shape[1]]

DatabaseNew ==
    /\ \E parameters \in DbMatrices, snapshots \in DbMatrices :
        /\ db_args' = [parameters |-> parameters, snapshots |-> snapshots]
        /\ database' = DatabaseInit(parameters, snapshots)
    /\ UNCHANGED ae_vars

InitDB ==
    /\ InitObject(CHOOSE a \in TrainingArgs : TRUE)
    /\ db_args = NoDbArgs
    /\ database = NoDatabase

NextDB == DatabaseNew

SpecDB == InitDB /\ [][NextDB]_vars

----------------------------------------------------------------------------
(* The claims. *)

\* the epochs the fit call in progress has trained, and the loss its e-th
\* epoch recorded
EpochsRun == n_epoch - 1

LossOfEpoch(e) == loss_trend[Len(loss_trend) - EpochsRun + e]

IntEntries == { i \in DOMAIN stop_training : stop_training[i].ty = "int" }

FloatEntries == { i \in DOMAIN stop_training : stop_training[i].ty = "float" }

\* some entry of stop_training is satisfied at epoch e
Satisfied(e) ==
    \/ \E i \in IntEntries : stop_training[i].val = e
    \/ \E i \in FloatEntries : LossOfEpoch(e)[1] < stop_training[i].val

\* a fit call has just returned normally
FitReturned == pc = "idle" /\ ret.op = "fit" /\ ~ret.raised

\* C1: with an integer criterion in stop_training, whatever its value, the
\* epochs a fit call trains never exceed the largest integer criterion.
C1_EpochsWithinLargestIntegerCriterion ==
    (pc = "train" /\ IntEntries # {}) =>
        \E i \in IntEntries :
            /\ \A j \in IntEntries : stop_training[j].val <= stop_training[i].val
            /\ EpochsRun <= stop_training[i].val

\* C2: the loop of fit ends at the first epoch at which some integer entry
\* equals the epoch counter or the epoch's first loss is below some float
\* entry: no earlier epoch satisfied a criterion, and the loop goes on after an
\* epoch exactly when that epoch satisfied none.
C2_HaltsOnFirstSatisfiedCriterion ==
    pc = "train" =>
        /\ \A e \in 1..(EpochsRun - 1) : ~Satisfied(e)
        /\ EpochsRun >= 1 => (flag <=> ~Satisfied(EpochsRun))
        /\ EpochsRun = 0 => flag

\* C2 witness: a loop ended by its second epoch or later
C2_LoopEndedAfterSeveralEpochs == pc = "train" /\ ~flag /\ EpochsRun >= 2

\* C3: when fit has returned, group 0 of the standalone decoder is empty and
\* its group i is the group of the i-th layer of the decoder part of the
\* autoencoder (the layers behind self.encoder), a layer of the same kind.
C3_DecoderIsCopyOfDecoderHalf ==
    FitReturned =>
        /\ model_Decoder.params[1] = <<>>
        /\ Len(model_Decoder.layers) - 1 = Len(model_Autoencoder.layers) - encoder.idx
        /\ \A i \in 2..Len(model_Decoder.layers) :
            /\ encoder.idx + i - 1 <= Len(model_Autoencoder.layers)
            /\ model_Decoder.params[i] = model_Autoencoder.params[encoder.idx + i - 1]
            /\ model_Decoder.layers[i].kind = model_Autoencoder.layers[encoder.idx + i - 1].kind

\* C4: the list fit hands to the standalone decoder is one empty group
\* followed by the last 2*len(layers_encoder)-1 groups of the autoencoder.
C4_HandedListLength ==
    decoder_parameters # <<>> =>
        LET k == 2 * Len(layers_encoder) - 1
            n == Len(model_Autoencoder.params)
        IN  /\ Len(decoder_parameters) = 2 * Len(layers_encoder)
            /\ decoder_parameters[1] = <<>>
            /\ \A i \in 1..k : decoder_parameters[i + 1] = model_Autoencoder.params[n - k + i]

\* C4 witness: a fit that returned on width lists of different lengths
C4_HandedOnUnequalLists ==
    /\ decoder_parameters # <<>>
    /\ fit_completed
    /\ Len(layers_encoder) # Len(layers_decoder)

\* C5: in both graphs the k-th non-final layer of a block is wrapped in the
\* activation configured at the position of its width (function_encoder for
\* the encoder, function_decoder for the decoder) and the final layer of each
\* block is followed by no activation.
C5_LayersUseConfiguredActivation ==
    model_Autoencoder.built =>
        LET ne == Len(layers_encoder)
            nd == Len(layers_decoder)
            ae == model_Autoencoder.layers
            de == model_Decoder.layers
        IN  /\ \A k \in 1..(ne - 1) :
                ae[1 + 2 * k].kind = "Act" /\ ae[1 + 2 * k].fn = function_encoder[k]
            /\ ae[2 * ne].kind = "Dense" /\ ae[2 * ne + 1].kind = "Dense"
            /\ \A k \in 1..(nd - 1) :
                /\ ae[2 * ne + 2 * k].kind = "Act"
                /\ ae[2 * ne + 2 * k].fn = function_decoder[k + 1]
                /\ de[1 + 2 * k].kind = "Act"
                /\ de[1 + 2 * k].fn = function_decoder[k + 1]
            /\ Last(ae).kind = "Dense" /\ Last(de).kind = "Dense"

\* the trained state and the configuration
Trained_state ==
    <<model_Autoencoder, model_Decoder, encoder, decoder, decoder2,
      loss_trend, metric_trend, config>>

\* C6: after a completed fit, a call of transform, inverse_transform, reduce
\* or expand leaves the models' parameters, the trends and the configuration
\* as they were, and returns what the previous call returned when that call
\* was the same call on the same input.
C6_CallsLeaveTrainedState ==
    [][(fit_completed /\ (Transform \/ InverseTransform \/ Reduce \/ Expand)) =>
        /\ Trained_state' = Trained_state
        /\ (ret.op = ret'.op /\ ret.arg = ret'.arg /\ ret.opt = ret'.opt) => ret' = ret]_vars

\* C6 witness: a transform that returned a matrix after a completed fit
C6_TransformAfterFit ==
    fit_completed /\ pc = "idle" /\ ret.op = "transform" /\ ~ret.raised

\* C7: after a completed fit, transform returns shape (L, N) for a snapshot
\* matrix of shape (F, N), and inverse_transform returns shape (F, N) for a
\* latent matrix of shape (L, N) with N > 1 and F > 1.
C7_SamplesAsColumns ==
    (fit_completed /\ pc = "idle" /\ ~ret.raised) =>
        /\ ret.op = "transform" => ret.out = <<Last(layers_encoder), ret.arg[2]>>
        /\ (/\ ret.op = "inverse_transform"
            /\ ret.arg[2] > 1
            /\ Last(model_Decoder.layers).units > 1)
           => ret.out = <<Last(model_Decoder.layers).units, ret.arg[2]>>

\* C8: constructing a Database raises exactly when one matrix alone is given
\* or the two matrices differ in their row counts; with no argument it yields
\* an empty container.
C8_DatabaseValidation ==
    database.made =>
        LET p == db_args.parameters
            q == db_args.snapshots
        IN  /\ database.raised <=>
                \/ (p.given /\ ~q.given) \/ (q.given /\ ~p.given)
                \/ (p.given /\ q.given /\ p.shape[1] # q.shape[1])
            /\ (~p.given /\ ~q.given) => (~database.raised /\ database.n = 0)
            /\ (p.given /\ q.given /\ ~database.raised) => database.n = q.shape[1]

\* C8 witness: two matrices of different row counts were refused
C8_MismatchRefused ==
    /\ database.made /\ database.raised
    /\ db_args.parameters.given /\ db_args.snapshots.given

AllUnset ==
    /\ model_Autoencoder = NoModel /\ model_Decoder = NoModel
    /\ encoder = NoLayer /\ decoder = NoLayer /\ decoder2 = NoLayer
    /\ loss_trend = <<>> /\ metric_trend = <<>>

AllSet ==
    /\ model_Autoencoder # NoModel /\ model_Decoder # NoModel
    /\ encoder # NoLayer /\ decoder # NoLayer /\ decoder2 # NoLayer
    /\ loss_trend # <<>> /\ metric_trend # <<>>

\* C9 as stated: the trained-state fields are unset in every state reached
\* before a fit call has completed, and set in every state after.
C9_UnsetUntilFitCompletes ==
    /\ ~fit_completed => AllUnset
    /\ fit_completed => AllSet

\* C9 as amended: the trained-state fields are unset until the first fit call
\* starts, and set in every state after a fit call has completed.
C9_UnsetUntilFitStarts ==
    /\ n_fit = 0 => AllUnset
    /\ fit_completed => AllSet

\* C9 witness: a second fit call in progress after a completed one
C9_RefitInProgress == fit_completed /\ pc = "train" /\ n_fit >= 2

LengthsMatch ==
    /\ Len(function_encoder) = Len(layers_encoder)
    /\ Len(function_decoder) = Len(layers_decoder)

\* C10 as stated: for a single activation or a list of any length, the stored
\* activation lists are as long as the width lists.
C10_ActivationListsMatchWidthLists == LengthsMatch

\* C10 as amended: an activation argument that is a single activation, or a
\* list as long as the width list, is stored as a list as long as the width
\* list, in every state.
C10_NormalizedListsMatchWidthLists ==
    /\ (~args.function_encoder.list
        \/ Len(args.function_encoder.items) = Len(args.layers_encoder))
       => Len(function_encoder) = Len(layers_encoder)
    /\ (~args.function_decoder.list
        \/ Len(args.function_decoder.items) = Len(args.layers_decoder))
       => Len(function_decoder) = Len(layers_decoder)

\* C10 witness: single activations on width lists of two entries, after a fit
C10_SingleActivationsAfterFit ==
    /\ ~args.function_encoder.list /\ ~args.function_decoder.list
    /\ Len(layers_encoder) >= 2 /\ Len(layers_decoder) >= 2
    /\ fit_completed

====
